---- MODULE Spec2Model ----
(***************************************************************************)
(* Streaming skewness estimator (src/src/moments/skewness.rs).             *)
(*                                                                         *)
(* The fields and observations are f64 values, and every +, -, *, / and    *)
(* sqrt of the code is modelled bit for bit as IEEE 754 binary64 does it:  *)
(* the exact result rounded to the nearest representable value, ties to    *)
(* even, with subnormals, gradual underflow, signed zeros, overflow to     *)
(* +-infinity and NaN for 0/0, inf - inf, inf * 0 and sqrt of a negative.  *)
(*                                                                         *)
(* MeanWithError (the owned mean/variance estimator) is not part of        *)
(* skewness.rs; it is modelled from the specification (section 4.1).       *)
(***************************************************************************)
EXTENDS Integers, Sequences, FiniteSets

\* ---------------------------------------------------------------- bounds
\* MaxObs bounds the observations held when add is called, MaxTotal the
\* observations held (copies made by merge included) after a merge.
MaxObs == 4

MaxTotal == 5

Ids == {1, 2}

\* ------------------------------------------------------------ evaluation
\* Let(v, Body) is Body(v) with v evaluated once.
Let(v, Body(_)) == CHOOSE r \in {Body(x) : x \in {v}} : TRUE

\* ------------------------------------------------------------ naturals
\* Unbounded naturals as little-endian sequences of limbs in base 2^14,
\* without high zero limbs (<<>> is 0), so that products of limbs stay
\* within the integers of the model checker.  The loops are recursive
\* functions, whose arguments are evaluated once per step.
LimbBits == 14

Base == 16384

BigNat == Seq(Nat)

Pow2Tab == <<1, 2, 4, 8, 16, 32, 64, 128, 256, 512, 1024, 2048, 4096,
             8192, 16384>>

Pow2(k) == Pow2Tab[k + 1]

Limb(a, i) == IF i <= Len(a) THEN a[i] ELSE 0

BStrip[a \in BigNat] ==
    IF a = <<>> THEN a
    ELSE IF a[Len(a)] = 0 THEN BStrip[SubSeq(a, 1, Len(a) - 1)]
    ELSE a

BFromInt[k \in Nat] ==
    IF k = 0 THEN <<>> ELSE <<k % Base>> \o BFromInt[k \div Base]

BAddAt[a \in BigNat, b \in BigNat, i \in Nat, c \in Nat] ==
    IF i > Len(a) /\ i > Len(b) THEN (IF c = 0 THEN <<>> ELSE <<c>>)
    ELSE <<(Limb(a, i) + Limb(b, i) + c) % Base>>
         \o BAddAt[a, b, i + 1, (Limb(a, i) + Limb(b, i) + c) \div Base]

BAdd(a, b) == BAddAt[a, b, 1, 0]

\* a - b for a >= b; c is the borrow.
BSubAt[a \in BigNat, b \in BigNat, i \in Nat, c \in Nat] ==
    IF i > Len(a) THEN <<>>
    ELSE IF a[i] - Limb(b, i) - c < 0
         THEN <<a[i] - Limb(b, i) - c + Base>> \o BSubAt[a, b, i + 1, 1]
    ELSE <<a[i] - Limb(b, i) - c>> \o BSubAt[a, b, i + 1, 0]

BSub(a, b) == BStrip[BSubAt[a, b, 1, 0]]

BCmpAt[a \in BigNat, b \in BigNat, i \in Nat] ==
    IF i = 0 THEN 0
    ELSE IF a[i] < b[i] THEN -1
    ELSE IF a[i] > b[i] THEN 1
    ELSE BCmpAt[a, b, i - 1]

\* -1, 0 or 1 as a < b, a = b or a > b.
BCmpV[a \in BigNat, b \in BigNat] ==
    IF Len(a) < Len(b) THEN -1
    ELSE IF Len(a) > Len(b) THEN 1
    ELSE BCmpAt[a, b, Len(a)]

BCmp(a, b) == BCmpV[a, b]

\* a * k for 0 <= k <= Base.
BMulIntAt[a \in BigNat, k \in Nat, i \in Nat, c \in Nat] ==
    IF i > Len(a) THEN (IF c = 0 THEN <<>> ELSE <<c>>)
    ELSE <<(a[i] * k + c) % Base>>
         \o BMulIntAt[a, k, i + 1, (a[i] * k + c) \div Base]

BMulInt(a, k) == IF k = 0 THEN <<>> ELSE BMulIntAt[a, k, 1, 0]

BShiftLimbs[a \in BigNat, q \in Nat] ==
    IF a = <<>> THEN a ELSE [i \in 1..q |-> 0] \o a

BMulAt[a \in BigNat, b \in BigNat, j \in Nat] ==
    IF j > Len(b) THEN <<>>
    ELSE BAdd(BMulInt(a, b[j]), BShiftLimbs[BMulAt[a, b, j + 1], 1])

BMul(a, b) == BMulAt[a, b, 1]

\* a * 2^k and floor(a / 2^k).
BShl(a, k) == BShiftLimbs[BMulInt(a, Pow2(k % LimbBits)), k \div LimbBits]

BShrV[a \in BigNat, q \in Nat, r \in Nat] ==
    IF Len(a) <= q THEN <<>>
    ELSE BStrip[[i \in 1..(Len(a) - q) |->
                   (a[q + i] \div Pow2(r))
                   + (Limb(a, q + i + 1) % Pow2(r)) * Pow2(LimbBits - r)]]

BShr(a, k) == BShrV[a, k \div LimbBits, k % LimbBits]

\* Bit k of a, and whether the k low bits of a are all zero.
BBit(a, k) == (Limb(a, k \div LimbBits + 1) \div Pow2(k % LimbBits)) % 2

BLowZero(a, k) ==
    /\ \A i \in 1..(k \div LimbBits) : Limb(a, i) = 0
    /\ Limb(a, k \div LimbBits + 1) % Pow2(k % LimbBits) = 0

IntBitLen[x \in Nat] == IF x = 0 THEN 0 ELSE 1 + IntBitLen[x \div 2]

BBitLenV[a \in BigNat] ==
    IF a = <<>> THEN 0 ELSE (Len(a) - 1) * LimbBits + IntBitLen[a[Len(a)]]

BBitLen(a) == BBitLenV[a]

IntTrailingZeros[x \in Nat] ==
    IF x % 2 = 1 THEN 0 ELSE 1 + IntTrailingZeros[x \div 2]

\* Number of trailing zero bits of a # 0, counted from limb i.
BTrailingZerosAt[a \in BigNat, i \in Nat] ==
    IF a[i] = 0 THEN LimbBits + BTrailingZerosAt[a, i + 1]
    ELSE IntTrailingZeros[a[i]]

BTrailingZeros(a) == BTrailingZerosAt[a, 1]

BOdd(a) == Limb(a, 1) % 2 = 1

\* Restoring division for r < 2 * d, one quotient bit per step: i more
\* bits are appended to the integer q; the result is <<q, remainder>>.
BDivBits[r \in BigNat, d \in BigNat, i \in Nat, q \in Nat] ==
    IF i = 0 THEN <<q, r>>
    ELSE IF BCmp(r, d) >= 0
         THEN BDivBits[BMulInt(BSub(r, d), 2), d, i - 1, 2 * q + 1]
    ELSE BDivBits[BMulInt(r, 2), d, i - 1, 2 * q]

\* j limbs of quotient, the most significant first; qs collects them.
BDivLimbs[r \in BigNat, d \in BigNat, j \in Nat, qs \in BigNat] ==
    IF j = 0 THEN <<BStrip[qs], r>>
    ELSE Let(BDivBits[r, d, LimbBits, 0],
             LAMBDA qr : BDivLimbs[qr[2], d, j - 1, <<qr[1]>> \o qs])

\* Short division of the limbs i, i - 1, .., 1 of a by 0 < d < Base with
\* incoming remainder r; qs collects the quotient limbs; the result is
\* <<quotient, remainder>>.
BDivIntAt[a \in BigNat, d \in Nat, i \in Nat, r \in Nat, qs \in BigNat] ==
    IF i = 0 THEN <<BStrip[qs], r>>
    ELSE BDivIntAt[a, d, i - 1, (r * Base + a[i]) % d,
                   <<(r * Base + a[i]) \div d>> \o qs]

\* Digit-by-digit square root: i more steps from the even bit position
\* k; the result is <<root so far, remainder>>.
BSqrtBits[n \in BigNat, res \in BigNat, k \in Nat, i \in Nat] ==
    IF i = 0 THEN <<res, n>>
    ELSE Let(BShl(<<1>>, k), LAMBDA bit :
         Let(BAdd(res, bit), LAMBDA t :
           IF BCmp(n, t) >= 0
           THEN BSqrtBits[BSub(n, t), BAdd(BShr(res, 1), bit),
                          IF k >= 2 THEN k - 2 ELSE 0, i - 1]
           ELSE BSqrtBits[n, BShr(res, 1),
                          IF k >= 2 THEN k - 2 ELSE 0, i - 1]))

\* <<floor(sqrt(n)), remainder>> for n < 2^(2 * j * LimbBits).
BSqrtLimbs[n \in BigNat, res \in BigNat, k \in Int, j \in Nat] ==
    IF j = 0 THEN <<res, n>>
    ELSE Let(BSqrtBits[n, res, k, LimbBits],
             LAMBDA rn : BSqrtLimbs[rn[2], rn[1], k - 2 * LimbBits, j - 1])

\* ------------------------------------------------------------------ f64
\* An f64 is [kind, s, m, e]: kind "num" is the finite value
\* (-1)^s * m * 2^e with m odd (or m = 0 and e = 0 for +-0.0), m < 2^53,
\* e >= -1074 and m * 2^e < 2^1024; kind "inf" is +-infinity and kind
\* "nan" is NaN.  Every operation rounds its exact result to the nearest
\* such value, ties to even, as IEEE 754 binary64 does.
MantBits == 53

MinExp == -1074

MaxTop == 1024

Num(s, m, e) == [kind |-> "num", s |-> s, m |-> m, e |-> e]

Inf(s) == [kind |-> "inf", s |-> s, m |-> <<>>, e |-> 0]

NaN == [kind |-> "nan", s |-> 0, m |-> <<>>, e |-> 0]

Zero == Num(0, <<>>, 0)

IsNaN(a) == a.kind = "nan"

IsInf(a) == a.kind = "inf"

IsZero(a) == a.kind = "num" /\ a.m = <<>>

\* A rounded mantissa m at exponent e: overflow to infinity, or the
\* value with its trailing zero bits moved into the exponent.
Pack(s, m, e) ==
    IF m = <<>> THEN Num(s, <<>>, 0)
    ELSE IF e + BBitLen(m) > MaxTop THEN Inf(s)
    ELSE Let(BTrailingZeros(m), LAMBDA tz : Num(s, BShr(m, tz), e + tz))

\* n / 2^shift rounded to the nearest integer, ties to even; sticky
\* tells whether the exact value lies above n.
RoundShift(n, shift, sticky) ==
    Let(BShr(n, shift), LAMBDA m0 :
      IF /\ BBit(n, shift - 1) = 1
         /\ (sticky \/ ~BLowZero(n, shift - 1) \/ BOdd(m0))
      THEN BAdd(m0, <<1>>)
      ELSE m0)

\* The f64 nearest to (-1)^s * (n + f) * 2^e, where 0 <= f < 1 and
\* sticky tells whether f > 0; a caller passing sticky supplies at least
\* MantBits + 2 bits in n.
RoundV(s, n, e, sticky) ==
    IF n = <<>> THEN Num(s, <<>>, 0)
    ELSE Let(BBitLen(n), LAMBDA len :
         IF e + len - MantBits <= MinExp
         THEN (IF e >= MinExp THEN Pack(s, n, e)
               ELSE Let(RoundShift(n, MinExp - e, sticky),
                        LAMBDA m : Pack(s, m, MinExp)))
         ELSE IF len <= MantBits THEN Pack(s, n, e)
         ELSE Let(RoundShift(n, len - MantBits, sticky),
                  LAMBDA m : Pack(s, m, e + len - MantBits)))

Round(s, n, e, sticky) == Let(n, LAMBDA nv : RoundV(s, nv, e, sticky))

\* f64::approx_from of a count, and small literals such as 1., 2., 3.
F(k) == IF k < 0 THEN Round(1, BFromInt[-k], 0, FALSE)
        ELSE Round(0, BFromInt[k], 0, FALSE)

FNeg(a) == IF IsNaN(a) THEN a ELSE [a EXCEPT !.s = 1 - a.s]

FAbs(a) == IF IsNaN(a) THEN a ELSE [a EXCEPT !.s = 0]

\* Position just above the leading bit of a non-zero finite a.
Top(a) == a.e + BBitLen(a.m)

\* The sum of x * 2^e with sign sa and y * 2^e with sign sb.
AddAligned(sa, x, sb, y, e) ==
    IF sa = sb THEN Round(sa, BAdd(x, y), e, FALSE)
    ELSE Let(BCmp(x, y), LAMBDA c :
         IF c = 0 THEN Num(0, <<>>, 0)
         ELSE IF c > 0 THEN Round(sa, BSub(x, y), e, FALSE)
         ELSE Round(sb, BSub(y, x), e, FALSE))

\* Exact sum of two non-zero finite values, then rounded.  An operand
\* whose leading bit lies more than 60 places below the other's cannot
\* change the rounded result.
AddFinite(a, b) ==
    Let(Top(a) - Top(b), LAMBDA gap :
      IF gap > 60 THEN a
      ELSE IF gap < -60 THEN b
      ELSE Let(IF a.e < b.e THEN a.e ELSE b.e, LAMBDA e :
           Let(<<BShl(a.m, a.e - e), BShl(b.m, b.e - e)>>, LAMBDA xy :
             AddAligned(a.s, xy[1], b.s, xy[2], e))))

FAddV(a, b) ==
    IF IsNaN(a) \/ IsNaN(b) THEN NaN
    ELSE IF IsInf(a) THEN (IF IsInf(b) /\ b.s # a.s THEN NaN ELSE a)
    ELSE IF IsInf(b) THEN b
    ELSE IF IsZero(a) /\ IsZero(b)
         THEN (IF a.s = 1 /\ b.s = 1 THEN a ELSE Zero)
    ELSE IF IsZero(a) THEN b
    ELSE IF IsZero(b) THEN a
    ELSE AddFinite(a, b)

FAdd(a, b) == Let(<<a, b>>, LAMBDA p : FAddV(p[1], p[2]))

FSub(a, b) == Let(<<a, b>>, LAMBDA p : FAddV(p[1], FNeg(p[2])))

FMulV(a, b) ==
    IF IsNaN(a) \/ IsNaN(b) THEN NaN
    ELSE IF IsInf(a) \/ IsInf(b)
         THEN (IF IsZero(a) \/ IsZero(b) THEN NaN
               ELSE Inf((a.s + b.s) % 2))
    ELSE Round((a.s + b.s) % 2, BMul(a.m, b.m), a.e + b.e, FALSE)

FMul(a, b) == Let(<<a, b>>, LAMBDA p : FMulV(p[1], p[2]))

\* Quotient by a one-limb divisor: the dividend mantissa is scaled by k
\* places so that the quotient has at least MantBits + 3 bits, and
\* divided limb by limb.
DivShort(s, a, b) ==
    Let(MantBits + 3 + LimbBits - BBitLen(a.m), LAMBDA k :
    Let(BShl(a.m, k), LAMBDA n :
    Let(BDivIntAt[n, b.m[1], Len(n), 0, <<>>], LAMBDA qr :
      Round(s, qr[1], a.e - k - b.e, qr[2] # 0))))

\* Quotient by a longer divisor: both mantissas are scaled to MantBits
\* bits (k[1], k[2] places), 4 limbs of quotient bits are produced, the
\* first of weight 1, and a non-zero remainder is the sticky bit.
DivLong(s, a, b) ==
    Let(<<MantBits - BBitLen(a.m), MantBits - BBitLen(b.m)>>, LAMBDA k :
    Let(BDivLimbs[BShl(a.m, k[1]), BShl(b.m, k[2]), 4, <<>>], LAMBDA qr :
      Round(s, qr[1], (a.e - k[1]) - (b.e - k[2]) - (4 * LimbBits - 1),
            qr[2] # <<>>)))

\* Quotient of two non-zero finite values.
DivFinite(s, a, b) ==
    IF Len(b.m) = 1 THEN DivShort(s, a, b) ELSE DivLong(s, a, b)

FDivV(a, b) ==
    IF IsNaN(a) \/ IsNaN(b) THEN NaN
    ELSE IF IsInf(a) THEN (IF IsInf(b) THEN NaN ELSE Inf((a.s + b.s) % 2))
    ELSE IF IsInf(b) THEN Num((a.s + b.s) % 2, <<>>, 0)
    ELSE IF IsZero(b)
         THEN (IF IsZero(a) THEN NaN ELSE Inf((a.s + b.s) % 2))
    ELSE IF IsZero(a) THEN Num((a.s + b.s) % 2, <<>>, 0)
    ELSE DivFinite((a.s + b.s) % 2, a, b)

FDiv(a, b) == Let(<<a, b>>, LAMBDA p : FDivV(p[1], p[2]))

\* Square root of a positive finite value: the mantissa is scaled by k
\* places to 8 limbs less one or two bits, with an even exponent; 4 limbs
\* of root bits are produced and a non-zero remainder is the sticky bit.
SqrtFinite(a) ==
    Let(8 * LimbBits - 1 - BBitLen(a.m), LAMBDA k0 :
    Let(k0 - ((a.e - k0) % 2), LAMBDA k :
    Let(BSqrtLimbs[BShl(a.m, k), <<>>, 8 * LimbBits - 2, 4], LAMBDA rn :
      Round(0, rn[1], (a.e - k) \div 2, rn[2] # <<>>))))

FSqrtV(a) ==
    IF IsNaN(a) THEN NaN
    ELSE IF IsZero(a) THEN a
    ELSE IF a.s = 1 THEN NaN
    ELSE IF IsInf(a) THEN a
    ELSE SqrtFinite(a)

FSqrt(a) == Let(a, LAMBDA v : FSqrtV(v))

\* IEEE comparisons: NaN is unordered, -0.0 equals +0.0.
FEqV(a, b) ==
    /\ ~IsNaN(a) /\ ~IsNaN(b)
    /\ (a = b \/ (IsZero(a) /\ IsZero(b)))

FEq(a, b) == \E p \in {<<a, b>>} : FEqV(p[1], p[2])

\* Order of the magnitudes of two finite or infinite values.
MagCmp(a, b) ==
    IF IsInf(a) THEN (IF IsInf(b) THEN 0 ELSE 1)
    ELSE IF IsInf(b) THEN -1
    ELSE IF IsZero(a) THEN (IF IsZero(b) THEN 0 ELSE -1)
    ELSE IF IsZero(b) THEN 1
    ELSE IF Top(a) # Top(b) THEN (IF Top(a) < Top(b) THEN -1 ELSE 1)
    ELSE IF a.e < b.e THEN BCmp(a.m, BShl(b.m, b.e - a.e))
    ELSE BCmp(BShl(a.m, a.e - b.e), b.m)

FLtV(a, b) ==
    /\ ~IsNaN(a) /\ ~IsNaN(b)
    /\ ~(IsZero(a) /\ IsZero(b))
    /\ IF a.s # b.s THEN a.s = 1
       ELSE IF a.s = 0 THEN MagCmp(a, b) < 0
       ELSE MagCmp(a, b) > 0

FLt(a, b) == \E p \in {<<a, b>>} : FLtV(p[1], p[2])

FLe(a, b) == \E p \in {<<a, b>>} : FLtV(p[1], p[2]) \/ FEqV(p[1], p[2])

\* The spec's example tolerance 1e-9, as the nearest f64.
Tol == Num(0, <<5781, 8347, 8382, 1099>>, -82)

FMax(a, b) == IF FLt(a, b) THEN b ELSE a

\* a and b are the same value, or finite and no further apart than Tol
\* times the largest of 1, |a| and |b|.
CloseV(a, b) ==
    \/ a = b
    \/ /\ a.kind = "num"
       /\ b.kind = "num"
       /\ FLe(FAbs(FSub(a, b)),
              FMul(Tol, FMax(F(1), FMax(FAbs(a), FAbs(b)))))

Close(a, b) == \E p \in {<<a, b>>} : CloseV(p[1], p[2])

\* Observations passed to add: small ones, and ones of magnitude 1e110
\* (the f64 nearest to it), whose square is finite and whose cube is not.
Values == {F(-1), F(0), F(1)}

Huge == Num(0, <<2687, 3981, 4482, 681>>, 314)

HugeValues == {FNeg(Huge), Zero, Huge}

\* ------------------------------------------- MeanWithError (section 4.1)
MeanWithError_new == [count |-> 0, mean |-> Zero, sum_sq |-> Zero]

MeanWithError_increment(m) == [m EXCEPT !.count = m.count + 1]

\* Fold an already computed delta_n = delta/n into mean and sum_sq, the
\* count having been incremented before: mean += delta_n and
\* sum_sq += delta * delta/n * (n - 1), written with delta = delta_n * n.
MeanWithError_add_inner(m, delta_n) ==
    Let(F(m.count), LAMBDA n :
      [m EXCEPT !.mean = FAdd(m.mean, delta_n),
                !.sum_sq = FAdd(m.sum_sq,
                                FMul(FMul(FMul(delta_n, delta_n), n),
                                     FSub(n, F(1))))])

\* n the count after incrementing, delta = x - mean_before, and the fold
\* of delta/n above (section 4.2, step 4: the fold is the estimator's own
\* add with delta_n already computed).
MeanWithError_add(m, x) ==
    Let(MeanWithError_increment(m), LAMBDA m1 :
    Let(FDiv(FSub(x, m.mean), F(m1.count)), LAMBDA delta_n :
      MeanWithError_add_inner(m1, delta_n)))

\* mean = mean1 + d*n2/n; sum_sq = sum_sq1 + sum_sq2 + d*d*n1*n2/n.
MeanWithError_merge(m, o) ==
    Let(F(m.count), LAMBDA n1 :
    Let(F(o.count), LAMBDA n2 :
    Let(FAdd(n1, n2), LAMBDA n :
    Let(FSub(o.mean, m.mean), LAMBDA d :
      [count  |-> m.count + o.count,
       mean   |-> FAdd(m.mean, FDiv(FMul(d, n2), n)),
       sum_sq |-> FAdd(FAdd(m.sum_sq, o.sum_sq),
                       FDiv(FMul(FMul(FMul(d, d), n1), n2), n))]))))

\* ------------------------------------------------------------- Skewness
new == [avg |-> MeanWithError_new, sum_3 |-> Zero]

is_empty(a) == a.avg.count = 0

mean(a) == a.avg.mean

len(a) == a.avg.count

\* Faulty variant: the sample size is not advanced.
increment_Skip(a) == a

increment(a) == [a EXCEPT !.avg = MeanWithError_increment(a.avg)]

\* Faulty variant: reads the sum of squares that already includes the
\* contribution of the observation being added.
add_inner_sum_3_NewSumSq(a, delta, delta_n) ==
    Let(F(len(a)), LAMBDA n :
    Let(FMul(FMul(delta, delta_n), FSub(n, F(1))), LAMBDA term :
    Let(MeanWithError_add_inner(a.avg, delta_n).sum_sq, LAMBDA sum_sq :
      [a EXCEPT !.sum_3 =
          FAdd(a.sum_3,
               FSub(FMul(FMul(term, delta_n), FSub(n, F(2))),
                    FMul(FMul(F(3), delta_n), sum_sq)))])))

\* First statement of add_inner: the third-moment update, reading the
\* sum of squares before it is updated.
add_inner_sum_3(a, delta, delta_n) ==
    Let(F(len(a)), LAMBDA n :
    Let(FMul(FMul(delta, delta_n), FSub(n, F(1))), LAMBDA term :
      [a EXCEPT !.sum_3 =
          FAdd(a.sum_3,
               FSub(FMul(FMul(term, delta_n), FSub(n, F(2))),
                    FMul(FMul(F(3), delta_n), a.avg.sum_sq)))]))

\* Second statement of add_inner: delegate to the owned estimator.
add_inner_avg(a, delta_n) ==
    [a EXCEPT !.avg = MeanWithError_add_inner(a.avg, delta_n)]

\* Faulty variant: the two statements of add_inner in reverse order.
add_inner_Reversed(a, delta, delta_n) ==
    Let(add_inner_avg(a, delta_n), LAMBDA a2 :
      add_inner_sum_3(a2, delta, delta_n))

add_inner(a, delta, delta_n) ==
    Let(add_inner_sum_3(a, delta, delta_n), LAMBDA a2 :
      add_inner_avg(a2, delta_n))

\* Faulty variant: n is read before the sample size is incremented.
add_StaleLen(a, x) ==
    Let(FSub(x, mean(a)), LAMBDA delta :
    Let(F(len(a)), LAMBDA n :
    Let(increment(a), LAMBDA a1 :
    Let(FDiv(delta, n), LAMBDA delta_n :
      add_inner(a1, delta, delta_n)))))

add(a, x) ==
    Let(FSub(x, mean(a)), LAMBDA delta :
    Let(increment(a), LAMBDA a1 :
    Let(F(len(a1)), LAMBDA n :
    Let(FDiv(delta, n), LAMBDA delta_n :
      add_inner(a1, delta, delta_n)))))

\* Faulty variant: the delegated merge runs first, so the third-moment
\* combination reads self's already merged sum of squares.
merge_StaleSumSq(a, other) ==
    Let(F(len(a)), LAMBDA len_self :
    Let(F(len(other)), LAMBDA len_other :
    Let(FAdd(len_self, len_other), LAMBDA len_total :
    Let(FSub(mean(other), mean(a)), LAMBDA delta :
    Let(FDiv(delta, len_total), LAMBDA delta_n :
    Let(MeanWithError_merge(a.avg, other.avg), LAMBDA merged :
      [avg   |-> merged,
       sum_3 |-> FAdd(a.sum_3,
                   FAdd(FAdd(other.sum_3,
                             FMul(FMul(FMul(FMul(FMul(delta, delta_n),
                                                 delta_n),
                                            len_self),
                                       len_other),
                                  FSub(len_self, len_other))),
                        FMul(FMul(F(3), delta_n),
                             FSub(FMul(len_self, other.avg.sum_sq),
                                  FMul(len_other, merged.sum_sq)))))]))))))

merge(a, other) ==
    Let(F(len(a)), LAMBDA len_self :
    Let(F(len(other)), LAMBDA len_other :
    Let(FAdd(len_self, len_other), LAMBDA len_total :
    Let(FSub(mean(other), mean(a)), LAMBDA delta :
    Let(FDiv(delta, len_total), LAMBDA delta_n :
      [avg   |-> MeanWithError_merge(a.avg, other.avg),
       sum_3 |-> FAdd(a.sum_3,
                   FAdd(FAdd(other.sum_3,
                             FMul(FMul(FMul(FMul(FMul(delta, delta_n),
                                                 delta_n),
                                            len_self),
                                       len_other),
                                  FSub(len_self, len_other))),
                        FMul(FMul(F(3), delta_n),
                             FSub(FMul(len_self, other.avg.sum_sq),
                                  FMul(len_other, a.avg.sum_sq)))))])))))

\* skewness() = sqrt(n) * sum_3 / sqrt(sum_2^3), or 0. when sum_3 == 0.
\* Kind "assert_failed" is the failure of debug_assert_ne!(sum_2, 0.) in
\* a build with debug assertions; v is then what a build without them
\* returns.
skewness(a) ==
    IF FEq(a.sum_3, Zero) THEN [kind |-> "value", v |-> Zero]
    ELSE Let(F(len(a)), LAMBDA n :
         Let(a.avg.sum_sq, LAMBDA sum_2 :
           [kind |-> IF FEq(sum_2, Zero) THEN "assert_failed" ELSE "value",
            v    |-> FDiv(FMul(FSqrt(n), a.sum_3),
                          FSqrt(FMul(FMul(sum_2, sum_2), sum_2)))]))

\* impl_from_iterator!: fold add over a sequence of observations.
RECURSIVE FromSeq(_)
FromSeq(s) ==
    IF s = <<>> THEN new
    ELSE Let(FromSeq(SubSeq(s, 1, Len(s) - 1)), LAMBDA a :
           add(a, s[Len(s)]))

\* ---------------------------------------------------------------- state
\* acc, mom: the estimators and their stand-alone MeanWithError shadows.
\* built[i]: acc[i] was only ever the target of add since new().
\* obs[i]: the observations added to acc[i], in order, kept while built[i]
\* holds (<<>> once acc[i] has been the target of a merge).
\* last: the most recent call, with self's value, history and built flag
\* before it.
VARIABLES acc, mom, obs, built, last, pc, tmp

vars == <<acc, mom, obs, built, last, pc, tmp>>

NoLast == [op |-> "none", self |-> 0, other |-> 0, x |-> Zero,
           pre |-> new, preObs |-> <<>>, preBuilt |-> TRUE]

NoTmp == [self |-> 0, x |-> Zero, delta |-> Zero, pre |-> new]

\* Total number of observations held by the accumulators in S.
RECURSIVE SumCount(_, _)
SumCount(a, S) ==
    IF S = {} THEN 0
    ELSE LET k == CHOOSE k \in S : TRUE
         IN len(a[k]) + SumCount(a, S \ {k})

Init ==
    /\ acc = [i \in Ids |-> new]
    /\ mom = [i \in Ids |-> MeanWithError_new]
    /\ obs = [i \in Ids |-> <<>>]
    /\ built = [i \in Ids |-> TRUE]
    /\ last = NoLast
    /\ pc = "idle"
    /\ tmp = NoTmp

Add(i, x) ==
    /\ pc = "idle"
    /\ SumCount(acc, Ids) < MaxObs
    /\ acc' = [acc EXCEPT ![i] = add(acc[i], x)]
    /\ mom' = [mom EXCEPT ![i] = MeanWithError_add(mom[i], x)]
    /\ obs' = [obs EXCEPT ![i] = IF built[i] THEN Append(obs[i], x) ELSE <<>>]
    /\ last' = [op |-> "add", self |-> i, other |-> 0, x |-> x,
                pre |-> acc[i], preObs |-> obs[i], preBuilt |-> built[i]]
    /\ UNCHANGED <<built, pc, tmp>>

\* Faulty variant: merge takes the other sample's contents, leaving it
\* empty.
MergeInto_Drain(accs, i, j) ==
    [accs EXCEPT ![i] = merge(accs[i], accs[j]), ![j] = new]

MergeInto(accs, i, j) == [accs EXCEPT ![i] = merge(accs[i], accs[j])]

Merge(i, j) ==
    /\ pc = "idle"
    /\ i # j
    /\ SumCount(acc, Ids) + len(acc[j]) <= MaxTotal
    /\ acc' = MergeInto(acc, i, j)
    /\ mom' = [mom EXCEPT ![i] = MeanWithError_merge(mom[i], mom[j])]
    /\ obs' = [obs EXCEPT ![i] = <<>>]
    /\ built' = [built EXCEPT ![i] = FALSE]
    /\ last' = [op |-> "merge", self |-> i, other |-> j, x |-> Zero,
                pre |-> acc[i], preObs |-> obs[i], preBuilt |-> built[i]]
    /\ UNCHANGED <<pc, tmp>>

Next == (\E i \in Ids, x \in Values : Add(i, x))
        \/ (\E i \in Ids, j \in Ids : Merge(i, j))

Spec == Init /\ [][Next]_vars

\* The same calls with observations of magnitude 1e110.
NextF64 == (\E i \in Ids, x \in HugeValues : Add(i, x))
           \/ (\E i \in Ids, j \in Ids : Merge(i, j))

SpecF64 == Init /\ [][NextF64]_vars

\* ------------------------------------------- add, statement by statement
AddStart(i, x) ==
    /\ pc = "idle"
    /\ SumCount(acc, Ids) < MaxObs
    /\ tmp' = [self |-> i, x |-> x, delta |-> FSub(x, mean(acc[i])),
               pre |-> acc[i]]
    /\ pc' = "delta"
    /\ UNCHANGED <<acc, mom, obs, built, last>>

AddIncrement ==
    /\ pc = "delta"
    /\ acc' = [acc EXCEPT ![tmp.self] = increment(acc[tmp.self])]
    /\ pc' = "incremented"
    /\ UNCHANGED <<mom, obs, built, last, tmp>>

AddInnerSum3 ==
    /\ pc = "incremented"
    /\ \E delta_n \in {FDiv(tmp.delta, F(len(acc[tmp.self])))} :
          acc' = [acc EXCEPT ![tmp.self] =
                     add_inner_sum_3(acc[tmp.self], tmp.delta, delta_n)]
    /\ pc' = "sum_3"
    /\ UNCHANGED <<mom, obs, built, last, tmp>>

AddInnerAvg ==
    /\ pc = "sum_3"
    /\ \E delta_n \in {FDiv(tmp.delta, F(len(acc[tmp.self])))} :
          acc' = [acc EXCEPT ![tmp.self] =
                     add_inner_avg(acc[tmp.self], delta_n)]
    /\ mom' = [mom EXCEPT ![tmp.self] =
                  MeanWithError_add(mom[tmp.self], tmp.x)]
    /\ obs' = [obs EXCEPT ![tmp.self] =
                  IF built[tmp.self] THEN Append(obs[tmp.self], tmp.x)
                  ELSE <<>>]
    /\ last' = [op |-> "add", self |-> tmp.self, other |-> 0, x |-> tmp.x,
                pre |-> tmp.pre, preObs |-> obs[tmp.self],
                preBuilt |-> built[tmp.self]]
    /\ pc' = "idle"
    /\ tmp' = NoTmp
    /\ UNCHANGED built

NextSteps == (\E i \in Ids, x \in Values : AddStart(i, x))
             \/ AddIncrement
             \/ AddInnerSum3
             \/ AddInnerAvg
             \/ (\E i \in Ids, j \in Ids : Merge(i, j))

SpecSteps == Init /\ [][NextSteps]_vars

TypeOK ==
    /\ pc \in {"idle", "delta", "incremented", "sum_3"}
    /\ \A i \in Ids : len(acc[i]) \in 0..MaxTotal

\* ------------------------------------------------ retrospective moments
\* The two-pass formulas, evaluated in f64 from left to right.
RECURSIVE SumSeq(_)
SumSeq(s) ==
    IF s = <<>> THEN Zero
    ELSE FAdd(SumSeq(SubSeq(s, 1, Len(s) - 1)), s[Len(s)])

ClassicalMean(s) == FDiv(SumSeq(s), F(Len(s)))

\* Sum over s of (x - m)^2, and of (x - m)^3.
RECURSIVE CentralSum2(_, _)
CentralSum2(s, m) ==
    IF s = <<>> THEN Zero
    ELSE Let(FSub(s[Len(s)], m), LAMBDA d :
           FAdd(CentralSum2(SubSeq(s, 1, Len(s) - 1), m), FMul(d, d)))

RECURSIVE CentralSum3(_, _)
CentralSum3(s, m) ==
    IF s = <<>> THEN Zero
    ELSE Let(FSub(s[Len(s)], m), LAMBDA d :
           FAdd(CentralSum3(SubSeq(s, 1, Len(s) - 1), m),
                FMul(FMul(d, d), d)))

\* Third standardized moment m3 / m2^(3/2) with m_k = CentralSum_k / n;
\* 0 by convention when all observations coincide.
ClassicalSkewness(s) ==
    Let(F(Len(s)), LAMBDA n :
    Let(ClassicalMean(s), LAMBDA m :
    Let(FDiv(CentralSum2(s, m), n), LAMBDA m2 :
      IF FEq(m2, Zero) THEN Zero
      ELSE FDiv(FDiv(CentralSum3(s, m), n),
                FSqrt(FMul(FMul(m2, m2), m2))))))

\* Same count, and mean, sum_sq and sum_cube within tolerance.
CloseAcc(a, b) ==
    /\ len(a) = len(b)
    /\ Close(mean(a), mean(b))
    /\ Close(a.avg.sum_sq, b.avg.sum_sq)
    /\ Close(a.sum_3, b.sum_3)

\* skewness() of both within tolerance.
CloseSkewness(a, b) ==
    \E p \in {<<skewness(a), skewness(b)>>} :
        p[1].kind = p[2].kind /\ Close(p[1].v, p[2].v)

\* The same f64 value: identical, or equal as f64 (-0.0 and +0.0).
SameValue(a, b) == a = b \/ FEq(a, b)

SameAcc(a, b) ==
    /\ len(a) = len(b)
    /\ SameValue(mean(a), mean(b))
    /\ SameValue(a.avg.sum_sq, b.avg.sum_sq)
    /\ SameValue(a.sum_3, b.sum_3)

\* ---------------------------------------------------------------- claims

C3_EmptyAllZero ==
    \A i \in Ids :
        /\ is_empty(acc[i]) <=> (len(acc[i]) = 0)
        /\ len(acc[i]) = 0
           => /\ FEq(mean(acc[i]), Zero)
              /\ FEq(acc[i].avg.sum_sq, Zero)
              /\ FEq(acc[i].sum_3, Zero)

\* C4: whenever sum_sq is 0, sum_cube is 0 as well, so skewness() takes
\* its special case and the assertion sum_sq != 0 never fails.
C4_NoDivisionByZero ==
    \A i \in Ids :
        /\ FEq(acc[i].avg.sum_sq, Zero) => FEq(acc[i].sum_3, Zero)
        /\ skewness(acc[i]).kind # "assert_failed"

\* C5: the count never decreases and a non-empty accumulator never
\* becomes empty; add increases len() by exactly 1 and merge sets len() to
\* the sum of the two lengths before the merge.
C5_Step ==
    /\ \A i \in Ids :
          /\ len(acc'[i]) >= len(acc[i])
          /\ len(acc[i]) >= 1 => len(acc'[i]) >= 1
    /\ last'.op = "add"
       => len(acc'[last'.self]) = len(acc[last'.self]) + 1
    /\ last'.op = "merge"
       => len(acc'[last'.self]) =
              len(acc[last'.self]) + len(acc[last'.other])

C5_CountNeverDecreases == [][C5_Step]_vars

C5_Witness ==
    /\ last.op = "merge"
    /\ len(last.pre) >= 1
    /\ len(acc[last.other]) >= 2
    /\ len(acc[last.self]) = len(last.pre) + len(acc[last.other])

\* C6: merge mutates only self; other's count, mean, sum_sq and sum_cube
\* are the same after the call as before.
C6_Step ==
    last'.op = "merge"
    => \A j \in Ids : j # last'.self => acc'[j] = acc[j]

C6_MergeLeavesOtherUnchanged == [][C6_Step]_vars

C6_Witness ==
    /\ last.op = "merge"
    /\ len(acc[last.other]) >= 2
    /\ ~FEq(acc[last.other].sum_3, Zero)
    /\ acc[last.self] # last.pre

\* Third operands of the associativity check: one observation each.
C7_Thirds == {FromSeq(<<x>>) : x \in Values}

\* (a merge b) merge c and a merge (b merge c) agree within tolerance.
C7_Agree(a, b, c) ==
    \E ab \in {merge(a, b)}, bc \in {merge(b, c)} :
    \E l \in {merge(ab, c)}, r \in {merge(a, bc)} : CloseAcc(l, r)

\* C7: merge is associative: for three accumulators A, B, C built from
\* disjoint sequences, (A merge B) merge C has the same count and, within
\* floating-point tolerance, the same mean, sum_sq and sum_cube as
\* A merge (B merge C).
C7_MergeAssociative ==
    \A i, j \in Ids, c \in C7_Thirds :
        (i # j /\ built[i] /\ built[j])
        => C7_Agree(acc[i], acc[j], c)

\* Associativity restricted to operands of which at most one is empty.
C7_AssociativeAtMostOneEmpty ==
    \A i, j \in Ids, c \in C7_Thirds :
        (i # j /\ built[i] /\ built[j]
         /\ len(acc[i]) + len(acc[j]) >= 1)
        => C7_Agree(acc[i], acc[j], c)

C9_Sum3Increment(p, x) ==
    Let(F(len(p) + 1), LAMBDA n :
    Let(FSub(x, mean(p)), LAMBDA delta :
    Let(FDiv(delta, n), LAMBDA delta_n :
      FSub(FMul(FMul(FMul(FMul(delta, delta_n), FSub(n, F(1))), delta_n),
                FSub(n, F(2))),
           FMul(FMul(F(3), delta_n), p.avg.sum_sq)))))

C9_AddProtocol ==
    /\ pc = "delta"
       => /\ tmp.delta = FSub(tmp.x, mean(tmp.pre))
          /\ acc[tmp.self] = tmp.pre
    /\ pc = "incremented"
       => /\ len(acc[tmp.self]) = len(tmp.pre) + 1
          /\ mean(acc[tmp.self]) = mean(tmp.pre)
          /\ acc[tmp.self].avg.sum_sq = tmp.pre.avg.sum_sq
          /\ acc[tmp.self].sum_3 = tmp.pre.sum_3
    /\ pc = "sum_3"
       => /\ len(acc[tmp.self]) = len(tmp.pre) + 1
          /\ mean(acc[tmp.self]) = mean(tmp.pre)
          /\ acc[tmp.self].avg.sum_sq = tmp.pre.avg.sum_sq
          /\ acc[tmp.self].sum_3 =
                 FAdd(tmp.pre.sum_3, C9_Sum3Increment(tmp.pre, tmp.x))
    /\ (pc = "idle" /\ last.op = "add")
       => /\ acc[last.self].sum_3 =
                 FAdd(last.pre.sum_3, C9_Sum3Increment(last.pre, last.x))
          /\ acc[last.self].avg = MeanWithError_add(last.pre.avg, last.x)
          /\ acc[last.self] = add(last.pre, last.x)

C9_Witness ==
    /\ pc = "sum_3"
    /\ ~FEq(tmp.pre.avg.sum_sq, Zero)
    /\ ~FEq(tmp.delta, Zero)
    /\ len(tmp.pre) >= 2
    /\ acc[tmp.self].sum_3 # tmp.pre.sum_3

\* C10: merging an empty accumulator into a non-empty self leaves self
\* unchanged, and merging a non-empty other into an empty self makes self
\* equal to other (count, mean, sum_sq, sum_cube).
C10_EmptyIsMergeIdentity ==
    last.op = "merge"
    => /\ (is_empty(acc[last.other]) /\ ~is_empty(last.pre))
          => SameAcc(acc[last.self], last.pre)
       /\ (is_empty(last.pre) /\ ~is_empty(acc[last.other]))
          => SameAcc(acc[last.self], acc[last.other])

====
